---------------------------- MODULE Spec2Model ----------------------------
(***************************************************************************)
(* The OANDA -> Google Sheets -> Discord bot, in its two source versions   *)
(* oanda_gsheets_bot2.1.py ("bot21") and oanda_gsheets_bot3.py ("bot3").   *)
(*                                                                         *)
(* The bot is one asyncio event loop.  monitor_and_report is a coroutine   *)
(* driven by discord.ext.tasks.loop; the OANDA request and the gspread     *)
(* calls are blocking calls, so the only suspension point of a cycle is    *)
(* `await channel.send(...)`.  A cycle is therefore two steps: the         *)
(* synchronous part up to the send (Tick / Retry) and the completion of    *)
(* the send (SendReturn).  on_ready is an event handler that may fire      *)
(* again after a reconnect.                                                *)
(*                                                                         *)
(* Strings that the code only copies are TLA+ strings; strings that the    *)
(* code takes apart (the ISO timestamp) are sequences of tokens.           *)
(* Provider records keep the types of the provider's interface (a price,   *)
(* when present, is a string; bids/asks, when present, are lists); what    *)
(* varies is which keys are present, whether the lists are empty and       *)
(* whether the timestamp parses.                                           *)
(***************************************************************************)
EXTENDS Integers, Sequences, FiniteSets, TLC

\* ------------------------------------------------------------------ bounds
MaxRecords == 2       \* records in one provider response of the running bot
MaxBatch == 2         \* records in a batch given to the transform alone
MaxInstruments == 2   \* entries of INSTRUMENTS_LIST
MaxSheet == 2         \* rows the sheet accepts before its API refuses (quota)
MaxTasks == 2         \* asyncio tasks of the loop that can exist at once

None == "None"

\* ------------------------------------------------------- provider records
Z6 == <<"2024-01-02", "T", "03:04:05", ".123456", "Z">>
Off0 == <<"2024-01-02", "T", "03:04:06", "+00:00">>
BadTime == <<"yesterday">>

QuoteA ==
  [instrument |-> "EUR_USD", bids |-> <<[price |-> "1.0841"]>>,
   asks |-> <<[price |-> "1.0843"]>>, status |-> "tradeable", time |-> Z6]

QuoteB ==
  [instrument |-> "USD_JPY", bids |-> <<[price |-> "151.20"], [price |-> "151.19"]>>,
   asks |-> <<[price |-> "151.23"]>>, status |-> "non-tradeable", time |-> Off0]

Without(r, k) == [f \in (DOMAIN r) \ {k} |-> r[f]]

RequiredKeys == {"instrument", "bids", "asks", "status", "time"}

BrokenRecords ==
  {Without(QuoteA, k) : k \in RequiredKeys}
    \cup {[QuoteA EXCEPT !.bids = <<>>],
          [QuoteA EXCEPT !.asks = <<[liquidity |-> "1000000"]>>],
          [QuoteA EXCEPT !.time = BadTime]}

Records == {QuoteA, QuoteB} \cup BrokenRecords

RECURSIVE SeqsUpTo(_, _)
SeqsUpTo(S, n) ==
  IF n = 0 THEN {<<>>}
  ELSE LET shorter == SeqsUpTo(S, n - 1)
       IN  shorter \cup {Append(s, x) : s \in {q \in shorter : Len(q) = n - 1}, x \in S}

\* The records the running bot is given: both valid quotes and a record
\* that fails to parse.
LoopRecords == {QuoteA, QuoteB, Without(QuoteA, "time")}

\* A response either has a 'prices' list or is an object without that key.
ResponsesOf(batches) == {[prices |-> s] : s \in batches} \cup {[time |-> Z6]}

Responses == ResponsesOf(SeqsUpTo(LoopRecords, MaxRecords))

\* The batches given to the transform alone
Batches == ResponsesOf(SeqsUpTo(Records, MaxBatch))

AllInstruments == <<"EUR_USD", "USD_JPY", "GBP_USD", "AUD_USD">>

\* --------------------------------------------------------- pure functions
\* dict.get(key, default)
Get(d, k, default) == IF k \in DOMAIN d THEN d[k] ELSE default

\* str.replace('Z', '+00:00') on the tokens of a timestamp
ReplaceZ(ts) == [i \in DOMAIN ts |-> IF ts[i] = "Z" THEN "+00:00" ELSE ts[i]]

Dates == {"2024-01-02"}
Clocks == {"03:04:05", "03:04:06"}
Fractions == {".123", ".123456"}
Offsets == {"+00:00", "+09:00"}

\* The value of an expression that raises
Raise(e) == [error |-> e]
Raised(x) == "error" \in DOMAIN x

\* datetime.fromisoformat: YYYY-MM-DD[*HH:MM:SS[.fff[fff]][+HH:MM]];
\* ValueError for anything else.
FromIsoFormat(ts) ==
  LET rest == IF Len(ts) > 3 THEN SubSeq(ts, 4, Len(ts)) ELSE <<>>
  IN  IF Len(ts) = 1 /\ ts[1] \in Dates
        THEN [date |-> ts[1], clock |-> "00:00:00", tz |-> None]
      ELSE IF Len(ts) >= 3 /\ ts[1] \in Dates /\ ts[2] \in {"T", " "} /\ ts[3] \in Clocks
        THEN IF rest = <<>>
               THEN [date |-> ts[1], clock |-> ts[3], tz |-> None]
             ELSE IF Len(rest) = 1 /\ rest[1] \in Fractions
               THEN [date |-> ts[1], clock |-> ts[3], tz |-> None]
             ELSE IF Len(rest) = 1 /\ rest[1] \in Offsets
               THEN [date |-> ts[1], clock |-> ts[3], tz |-> rest[1]]
             ELSE IF Len(rest) = 2 /\ rest[1] \in Fractions /\ rest[2] \in Offsets
               THEN [date |-> ts[1], clock |-> ts[3], tz |-> rest[2]]
             ELSE Raise("ValueError")
      ELSE Raise("ValueError")

\* dt.strftime('%Y-%m-%d %H:%M:%S'): no zone conversion, fraction dropped
StrfTime(dt) == <<dt.date, " ", dt.clock>>

\* f"{instrument.ljust(10)}| {bid_price.rjust(10)} | {ask_price.rjust(10)}"
LJust(s, w) == [text |-> s, pad |-> "right", width |-> w]
RJust(s, w) == [text |-> s, pad |-> "left", width |-> w]
DiscordRow(instrument, bid, ask) ==
  <<LJust(instrument, 10), "| ", RJust(bid, 10), " | ", RJust(ask, 10)>>

\* ---------------------------------------------------------- configuration
VARIABLES
  ver,               \* which source file runs: "bot21" or "bot3"
  INSTRUMENTS_LIST,  \* the configured instrument list
  gspread_client,    \* bot.gspread_client: unset, None or the client
  loop_task,         \* Loop._task of monitor_and_report: 0 (None) or a task
  task,              \* the asyncio tasks created by monitor_and_report.start()
  sheet              \* rows of sheet1 of the Google sheet

vars == <<ver, INSTRUMENTS_LIST, gspread_client, loop_task, task, sheet>>

Tasks == 1..MaxTasks

\* --------------------------------------------------------- the cycle frame
NoResponse == [unset |-> TRUE]
NoEmbed == [title |-> None, color |-> None, description |-> None,
            fields |-> <<>>, footer |-> None]

\* The locals of one call of monitor_and_report, with what the call did
\* (fetch, sink_calls, sends, warnings, stages, escaped).
NewFrame ==
  [channel |-> "unset", fetch |-> "none", response |-> NoResponse,
   all_rows_for_gsheet |-> <<>>, table_rows_for_discord |-> <<>>,
   sheet_src |-> <<>>, table_src |-> <<>>, warnings |-> 0,
   sink |-> "none", sink_open |-> "none", sink_calls |-> <<>>, rows_written |-> 0,
   embed |-> NoEmbed, sends |-> 0, delivered |-> FALSE,
   stages |-> <<>>, escaped |-> None]

\* When the coroutine returns or raises, its locals are gone; what the call
\* did (and logged) stays on record until the next call.
Finished(f) ==
  [NewFrame EXCEPT !.channel = f.channel, !.fetch = f.fetch, !.sink = f.sink,
                   !.sink_open = f.sink_open,
                   !.sends = f.sends, !.delivered = f.delivered,
                   !.stages = f.stages, !.escaped = f.escaped]

NoTask == [pc |-> "none"]

\* ------------------------------------------------------------ transform
\* except (KeyError, IndexError, ValueError) in bot21, except Exception in bot3
Caught(v, e) ==
  IF v = "bot3" THEN TRUE ELSE e \in {"KeyError", "IndexError", "ValueError"}

\* price_data['instrument'], price_data['bids'][0]['price'],
\* price_data['asks'][0]['price']: the first exception raised, or None
LookupError(r) ==
  IF "instrument" \notin DOMAIN r THEN "KeyError"
  ELSE IF "bids" \notin DOMAIN r THEN "KeyError"
  ELSE IF Len(r.bids) = 0 THEN "IndexError"
  ELSE IF "price" \notin DOMAIN r.bids[1] THEN "KeyError"
  ELSE IF "asks" \notin DOMAIN r THEN "KeyError"
  ELSE IF Len(r.asks) = 0 THEN "IndexError"
  ELSE IF "price" \notin DOMAIN r.asks[1] THEN "KeyError"
  ELSE None

\* price_data['time'] parsed, then price_data['status']: the first exception
SheetError(r) ==
  IF "time" \notin DOMAIN r THEN "KeyError"
  ELSE IF Raised(FromIsoFormat(ReplaceZ(r.time))) THEN "ValueError"
  ELSE IF "status" \notin DOMAIN r THEN "KeyError"
  ELSE None

\* Mutant of GsheetRow: the bid and the ask change places
GsheetRowSwapped(r) ==
  <<r.instrument, StrfTime(FromIsoFormat(ReplaceZ(r.time))), r.status,
    r.asks[1].price, r.bids[1].price>>

GsheetRow(r) ==
  <<r.instrument, StrfTime(FromIsoFormat(ReplaceZ(r.time))), r.status,
    r.bids[1].price, r.asks[1].price>>

\* The except clause of the loop body
Except(v, f, e) ==
  IF Caught(v, e) THEN [f EXCEPT !.warnings = @ + 1] ELSE [f EXCEPT !.escaped = e]

\* One pass of the body of the for loop on record i
ProcessRecord(v, r, i, f) ==
  LET withTable ==
        [f EXCEPT !.table_rows_for_discord =
                    Append(@, DiscordRow(r.instrument, r.bids[1].price, r.asks[1].price)),
                  !.table_src = Append(@, i)]
  IN  IF LookupError(r) # None THEN Except(v, f, LookupError(r))
      ELSE IF SheetError(r) # None THEN Except(v, withTable, SheetError(r))
      ELSE [withTable EXCEPT !.all_rows_for_gsheet = Append(@, GsheetRow(r)),
                             !.sheet_src = Append(@, i)]

\* Mutant of ProcessRecord: one sheet row for every bid of the record
RECURSIVE RowPerBid(_, _, _, _)
RowPerBid(r, i, k, f) ==
  IF k > Len(r.bids) THEN f
  ELSE RowPerBid(r, i, k + 1, [f EXCEPT !.all_rows_for_gsheet = Append(@, GsheetRow(r)),
                                        !.sheet_src = Append(@, i)])

RECURSIVE TransformFromPerBid(_, _, _, _)
TransformFromPerBid(v, prices, i, f) ==
  IF i > Len(prices) \/ f.escaped # None THEN f
  ELSE LET r == prices[i]
           g == ProcessRecord(v, r, i, f)
       IN  TransformFromPerBid(v, prices, i + 1,
             IF LookupError(r) = None /\ SheetError(r) = None
               THEN RowPerBid(r, i, 2, g) ELSE g)

TransformPerBid(v, f) == TransformFromPerBid(v, Get(f.response, "prices", <<>>), 1, f)

RECURSIVE TransformFrom(_, _, _, _)
TransformFrom(v, prices, i, f) ==
  IF i > Len(prices) \/ f.escaped # None THEN f
  ELSE TransformFrom(v, prices, i + 1, ProcessRecord(v, prices[i], i, f))

\* for price_data in response.get('prices', []): ...
Transform(v, f) == TransformFrom(v, Get(f.response, "prices", <<>>), 1, f)

\* ----------------------------------------------------------------- sink
\* Mutant of AppendBulkToSheet: the count is returned on failure too
AppendBulkCountsFailures(data_rows, sh, api) ==
  IF data_rows = <<>>
    THEN [ret |-> 0, sheet |-> sh, open |-> "none", calls |-> <<>>, how |-> "empty"]
  ELSE IF api = "open_raises"
    THEN [ret |-> Len(data_rows), sheet |-> sh, open |-> "raised", calls |-> <<>>,
          how |-> "raised"]
  ELSE IF api = "append_raises"
    THEN [ret |-> Len(data_rows), sheet |-> sh, open |-> "ok", calls |-> <<data_rows>>,
          how |-> "raised"]
  ELSE [ret |-> Len(data_rows), sheet |-> sh \o data_rows, open |-> "ok",
        calls |-> <<data_rows>>, how |-> "ok"]

\* Mutant of AppendBulkToSheet: one append call for every row
AppendRowByRow(data_rows, sh, api) ==
  IF data_rows = <<>>
    THEN [ret |-> 0, sheet |-> sh, open |-> "none", calls |-> <<>>, how |-> "empty"]
  ELSE IF api = "open_raises"
    THEN [ret |-> 0, sheet |-> sh, open |-> "raised", calls |-> <<>>, how |-> "raised"]
  ELSE IF api = "append_raises"
    THEN [ret |-> 0, sheet |-> sh, open |-> "ok", calls |-> <<<<data_rows[1]>>>>,
          how |-> "raised"]
  ELSE [ret |-> Len(data_rows), sheet |-> sh \o data_rows, open |-> "ok",
        calls |-> [i \in DOMAIN data_rows |-> <<data_rows[i]>>], how |-> "ok"]

\* Mutant of AppendBulkToSheet: the rows are inserted at the top of the sheet
AppendBulkInsertsOnTop(data_rows, sh, api) ==
  IF data_rows = <<>>
    THEN [ret |-> 0, sheet |-> sh, open |-> "none", calls |-> <<>>, how |-> "empty"]
  ELSE IF api = "open_raises"
    THEN [ret |-> 0, sheet |-> sh, open |-> "raised", calls |-> <<>>, how |-> "raised"]
  ELSE IF api = "append_raises"
    THEN [ret |-> 0, sheet |-> sh, open |-> "ok", calls |-> <<data_rows>>, how |-> "raised"]
  ELSE [ret |-> Len(data_rows), sheet |-> data_rows \o sh, open |-> "ok",
        calls |-> <<data_rows>>, how |-> "ok"]

\* append_bulk_to_sheet(client, sheet_name, data_rows) against the sheet sh.
\* api is what the Sheets API does with the call: "ok", "open_raises"
\* (client.open fails) or "append_raises" (sheet.append_rows fails).
\* Result: the return value, the sheet afterwards, how client.open ended,
\* the append_rows calls made (each with the rows it carried).
AppendBulkToSheet(data_rows, sh, api) ==
  IF data_rows = <<>>
    THEN [ret |-> 0, sheet |-> sh, open |-> "none", calls |-> <<>>, how |-> "empty"]
  ELSE IF api = "open_raises"
    THEN [ret |-> 0, sheet |-> sh, open |-> "raised", calls |-> <<>>, how |-> "raised"]
  ELSE IF api = "append_raises"
    THEN [ret |-> 0, sheet |-> sh, open |-> "ok", calls |-> <<data_rows>>, how |-> "raised"]
  ELSE [ret |-> Len(data_rows), sheet |-> sh \o data_rows, open |-> "ok",
        calls |-> <<data_rows>>, how |-> "ok"]

\* rows_written = append_bulk_to_sheet(...) if bot.gspread_client else 0
WriteStep(f, client, sh, api) ==
  IF client = None
    THEN [frame |-> [f EXCEPT !.sink = "no_client", !.rows_written = 0,
                              !.stages = Append(@, "WRITING")],
          sheet |-> sh]
  ELSE LET r == AppendBulkToSheet(f.all_rows_for_gsheet, sh, api)
       IN  [frame |-> [f EXCEPT !.sink = r.how, !.rows_written = r.ret,
                                !.sink_open = r.open, !.sink_calls = r.calls,
                                !.stages = Append(@, "WRITING")],
            sheet |-> r.sheet]

\* ------------------------------------------------------- report builder
\* Mutant of ReportColor: the colour does not depend on what the sink wrote
ReportColorIgnoresSink(v, rows_written, instruments) ==
  IF Len(instruments) > 0 THEN "green" ELSE "orange"

\* discord.Color.green() if ... else discord.Color.orange()
ReportColor(v, rows_written, instruments) ==
  IF v = "bot21"
    THEN IF rows_written > 0 /\ rows_written = Len(instruments) THEN "green" ELSE "orange"
    ELSE IF rows_written > 0 THEN "green" ELSE "orange"

\* full_table: code fence, header, separator, the table rows, code fence
FullTable(table_rows) ==
  <<"FENCE", DiscordRow("Instrument", "BID", "ASK"), "separator">> \o table_rows \o <<"FENCE">>

\* The embed of the full report
ReportEmbed(v, f, instruments) ==
  LET table == f.table_rows_for_discord
      live == IF table # <<>>
                THEN <<[name |-> "Live Prices", value |-> FullTable(table)]>>
                ELSE <<>>
      counters == <<[name |-> "Instruments Fetched", value |-> Len(f.all_rows_for_gsheet)],
                    [name |-> "Rows Written to GSheet", value |-> f.rows_written]>>
  IN  [title |-> "OANDA Price Report",
       color |-> ReportColor(v, f.rows_written, instruments),
       description |-> IF v = "bot21" /\ table = <<>>
                         THEN "No price data was returned from the API." ELSE None,
       fields |-> live \o counters,
       footer |-> IF v = "bot21" THEN "OANDA-GSheets Bot" ELSE None]

\* The embed sent when the OANDA request raised
FailureEmbed(v) ==
  [title |-> "OANDA API Failure", color |-> "red",
   description |-> IF v = "bot21" THEN "Could not fetch data. Error: e" ELSE "Error: e",
   fields |-> <<>>, footer |-> None]

\* ------------------------------------------------------------ the cycle
\* Mutant of ChannelMissing: the check is gone
ChannelNeverMissing(channel) == FALSE

\* if not channel: ...; return
ChannelMissing(channel) == channel = None

\* monitor_and_report from its first line to its first await or its return.
\* Inputs: channel (what bot.get_channel returned), fetchOk (the OANDA request
\* returned), resp (what it returned), api (the Sheets API's behaviour).
\* Result: the frame, the sheet, and where the coroutine is: "returned",
\* "raised", or awaiting "send_failure" / "send_report".
RunToAwait(v, instruments, client, sh, channel, fetchOk, resp, api) ==
  LET f0 == [NewFrame EXCEPT !.channel = channel]
      f1 == [f0 EXCEPT !.fetch = IF fetchOk THEN "ok" ELSE "raised",
                       !.stages = Append(@, "FETCHING")]
      f2 == Transform(v, [f1 EXCEPT !.response = resp,
                                    !.stages = Append(@, "TRANSFORMING")])
      w  == WriteStep(f2, client, sh, api)
      f3 == [w.frame EXCEPT !.stages = Append(@, "REPORTING")]
  IN  IF ChannelMissing(channel) THEN [frame |-> f0, sheet |-> sh, at |-> "returned"]
      ELSE IF ~fetchOk
        THEN [frame |-> [f1 EXCEPT !.embed = FailureEmbed(v), !.sends = 1],
              sheet |-> sh, at |-> "send_failure"]
      ELSE IF f2.escaped # None THEN [frame |-> f2, sheet |-> sh, at |-> "raised"]
      ELSE [frame |-> [f3 EXCEPT !.embed = ReportEmbed(v, f3, instruments), !.sends = 1],
            sheet |-> w.sheet, at |-> "send_report"]

\* Whether the coroutine catches an exception of channel.send at this await
SendGuarded(v, at) == v = "bot21" /\ at = "send_report"

\* ------------------------------------------------- discord.ext.tasks.Loop
\* Loop._valid_exception: the coroutine is called again after a backoff
ValidExceptions == {"OSError", "GatewayNotFound", "ConnectionClosed", "ClientError", "TimeoutError"}

\* What channel.send raises: discord.HTTPException (Forbidden, NotFound,
\* a server error) or the OSError of a broken connection
SendExceptions == {"HTTPException", "OSError"}

\* Where Loop._loop goes when the coroutine ends: returned normally (None)
\* or with exception e.
AfterCoro(e) ==
  IF e = None THEN "sleeping"
  ELSE IF e \in ValidExceptions THEN "backoff"
  ELSE "failed"

Done(t) == task[t].pc \in {"none", "failed"}
Awaiting(t) == task[t].pc \in {"send_failure", "send_report"}

\* Loop.start(): RuntimeError while the task of the loop is not done
StartRefused == loop_task # 0 /\ ~Done(loop_task)

FreeSlots == {t \in Tasks : Done(t)}

Init ==
  /\ ver \in {"bot21", "bot3"}
  /\ \E n \in 1..MaxInstruments : INSTRUMENTS_LIST = SubSeq(AllInstruments, 1, n)
  /\ gspread_client = "unset"
  /\ loop_task = 0
  /\ task = [t \in Tasks |-> NoTask]
  /\ sheet = <<>>

\* auth_gspread(): the client, or None when the credentials fail
AuthGspread(credsOk) == IF credsOk THEN "client" ELSE None

\* Mutant of OnReady: the loop body is launched as a new task on every
\* on_ready, whether or not one is running
OnReadyAlwaysStarts ==
  /\ \E credsOk \in BOOLEAN : gspread_client' = AuthGspread(credsOk)
  /\ FreeSlots # {}
  /\ LET t == CHOOSE x \in FreeSlots : \A y \in FreeSlots : x <= y
     IN  /\ loop_task' = t
         /\ task' = [task EXCEPT ![t] = [pc |-> "sleeping", frame |-> NewFrame]]
  /\ UNCHANGED <<ver, INSTRUMENTS_LIST, sheet>>

\* Mutant of OnReady: the loop is restarted, a running task is cancelled
OnReadyRestarts ==
  /\ \E credsOk \in BOOLEAN : gspread_client' = AuthGspread(credsOk)
  /\ LET t == IF StartRefused THEN loop_task
              ELSE CHOOSE x \in FreeSlots : \A y \in FreeSlots : x <= y
     IN  /\ loop_task' = t
         /\ task' = [task EXCEPT ![t] = [pc |-> "sleeping", frame |-> NewFrame]]
  /\ UNCHANGED <<ver, INSTRUMENTS_LIST, sheet>>

\* on_ready: bot.gspread_client = auth_gspread(); monitor_and_report.start()
OnReady ==
  /\ \E credsOk \in BOOLEAN : gspread_client' = AuthGspread(credsOk)
  /\ IF StartRefused
       THEN UNCHANGED <<loop_task, task>>
       ELSE /\ FreeSlots # {}
            /\ LET t == CHOOSE x \in FreeSlots : \A y \in FreeSlots : x <= y
               IN  /\ loop_task' = t
                   /\ task' = [task EXCEPT ![t] = [pc |-> "sleeping", frame |-> NewFrame]]
  /\ UNCHANGED <<ver, INSTRUMENTS_LIST, sheet>>

\* What the environment does during one call of the coroutine: whether
\* bot.get_channel finds the channel, whether the OANDA request returns and
\* what, and what the Sheets API does.  Inputs the call never reads (the
\* response when nothing is fetched, the Sheets API when there is no client)
\* are held fixed.
ApiOutcomes == {"ok", "open_raises", "append_raises"}

CycleInputs(client) ==
  {[channel |-> None, fetchOk |-> FALSE, resp |-> NoResponse, api |-> "ok"],
   [channel |-> "channel", fetchOk |-> FALSE, resp |-> NoResponse, api |-> "ok"]}
    \cup {[channel |-> "channel", fetchOk |-> TRUE, resp |-> r, api |-> a] :
            r \in Responses, a \in IF client = "client" THEN ApiOutcomes ELSE {"ok"}}

\* One call of the coroutine by Loop._loop, up to its first await
Call(t) ==
  \E in \in CycleInputs(gspread_client) :
    \E r \in {RunToAwait(ver, INSTRUMENTS_LIST, gspread_client, sheet,
                          in.channel, in.fetchOk, in.resp, in.api)} :
        /\ Len(r.sheet) <= MaxSheet
        /\ sheet' = r.sheet
        /\ task' = [task EXCEPT ![t] =
                      IF r.at = "returned"
                        THEN [pc |-> AfterCoro(None), frame |-> Finished(r.frame)]
                      ELSE IF r.at = "raised"
                        THEN [pc |-> AfterCoro(r.frame.escaped), frame |-> Finished(r.frame)]
                      ELSE [pc |-> r.at, frame |-> r.frame]]

\* Mutant of Tick: the cycle authenticates again before it runs
TickReauthenticates(t) ==
  /\ task[t].pc = "sleeping"
  /\ Call(t)
  /\ \E credsOk \in BOOLEAN : gspread_client' = AuthGspread(credsOk)
  /\ UNCHANGED <<ver, INSTRUMENTS_LIST, loop_task>>

\* The interval has passed: the next cycle starts
Tick(t) ==
  /\ task[t].pc = "sleeping"
  /\ Call(t)
  /\ UNCHANGED <<ver, INSTRUMENTS_LIST, gspread_client, loop_task>>

\* The backoff after a valid exception has passed: the coroutine is called again
Retry(t) ==
  /\ task[t].pc = "backoff"
  /\ Call(t)
  /\ UNCHANGED <<ver, INSTRUMENTS_LIST, gspread_client, loop_task>>

\* await channel.send(embed=...) completes: delivered, or raising e
SendReturn(t) ==
  /\ Awaiting(t)
  /\ \E e \in {None} \cup SendExceptions :
       LET f == task[t].frame
           guarded == SendGuarded(ver, task[t].pc)
       IN  task' = [task EXCEPT ![t] =
                      [pc |-> IF guarded THEN AfterCoro(None) ELSE AfterCoro(e),
                       frame |-> Finished([f EXCEPT !.delivered = (e = None),
                                                    !.escaped = IF guarded THEN None ELSE e])]]
  /\ UNCHANGED <<ver, INSTRUMENTS_LIST, gspread_client, loop_task, sheet>>

Next ==
  \/ OnReady
  \/ \E t \in Tasks : Tick(t)
  \/ \E t \in Tasks : Retry(t)
  \/ \E t \in Tasks : SendReturn(t)

Spec == Init /\ [][Next]_vars

\* The transform alone, on every batch: the for loop of monitor_and_report
\* applied to a response drawn from Batches.
InitTransform ==
  /\ ver \in {"bot21", "bot3"}
  /\ \E n \in 1..MaxInstruments : INSTRUMENTS_LIST = SubSeq(AllInstruments, 1, n)
  /\ gspread_client = "unset"
  /\ loop_task = 0
  /\ sheet = <<>>
  /\ \E b \in Batches :
       task = [t \in Tasks |->
                 IF t = 1 THEN [pc |-> "transform", frame |-> [NewFrame EXCEPT !.response = b]]
                 ELSE NoTask]

ApplyTransform ==
  /\ task[1].pc = "transform"
  /\ task' = [task EXCEPT ![1] = [pc |-> "transformed", frame |-> Transform(ver, task[1].frame)]]
  /\ UNCHANGED <<ver, INSTRUMENTS_LIST, gspread_client, loop_task, sheet>>

NextTransform == ApplyTransform

TransformSpec == InitTransform /\ [][NextTransform]_vars

\* The timer fires and a pending send completes; a reconnect (on_ready) is
\* an event of the environment and is not guaranteed.
FairSpec ==
  /\ Spec
  /\ \A t \in Tasks : WF_vars(Tick(t)) /\ WF_vars(Retry(t)) /\ WF_vars(SendReturn(t))

\* ---------------------------------------------------------------- startup
\* The environment of the process: the value of each variable, None when the
\* variable is not set.
TextValues == {None, "", "value"}
Environments ==
  [BOT_TOKEN : TextValues,
   CHANNEL_ID : {None, "abc", "0", "7"},
   CHECK_INTERVAL_SECONDS : {None, "abc", "60"},
   OANDA_ACCOUNT_ID : TextValues,
   OANDA_ACCESS_TOKEN : TextValues,
   GOOGLE_SHEET_NAME : TextValues,
   SERVICE_ACCOUNT_FILE : TextValues,
   INSTRUMENTS : {None, "", "EUR_USD"}]

\* os.getenv(name, default)
Getenv(env, name, default) == IF env[name] = None THEN default ELSE env[name]

\* int(x): TypeError for None, ValueError for a string that is no integer
Numerals == [a \in {"0", "7", "60"} |-> IF a = "0" THEN 0 ELSE IF a = "7" THEN 7 ELSE 60]
ToInt(x) ==
  IF x = None THEN [ok |-> FALSE, error |-> "TypeError"]
  ELSE IF x \in DOMAIN Numerals THEN [ok |-> TRUE, val |-> Numerals[x]]
  ELSE [ok |-> FALSE, error |-> "ValueError"]

\* Truth value of a string or None
Truthy(x) == x \notin {None, ""}

\* The default of SERVICE_ACCOUNT_FILE: none in bot2.1, a file name in bot3
DefaultFile(v) == IF v = "bot3" THEN "value" ELSE None

\* if not all([BOT_TOKEN, CHANNEL_ID, OANDA_ACCOUNT_ID, OANDA_ACCESS_TOKEN,
\* GOOGLE_SHEET_NAME, SERVICE_ACCOUNT_FILE]): exit() -- in bot2.1 only
AllSet(v, env, channel_id) ==
  v = "bot21" =>
    /\ Truthy(env.BOT_TOKEN) /\ channel_id # 0
    /\ Truthy(env.OANDA_ACCOUNT_ID) /\ Truthy(env.OANDA_ACCESS_TOKEN)
    /\ Truthy(env.GOOGLE_SHEET_NAME)
    /\ Truthy(Getenv(env, "SERVICE_ACCOUNT_FILE", DefaultFile(v)))

\* The module-level code from the loading of the environment to the
\* construction of oanda_api and bot: "exited" when an exit() was reached,
\* else "main" with the two clients constructed.
LoadConfiguration(v, env) ==
  LET channel_id == ToInt(env.CHANNEL_ID)
      interval   == ToInt(Getenv(env, "CHECK_INTERVAL_SECONDS", "60"))
  IN  IF ~channel_id.ok \/ ~interval.ok THEN "exited"
      ELSE IF ~Truthy(env.INSTRUMENTS) THEN "exited"
      ELSE IF ~AllSet(v, env, channel_id.val) THEN "exited"
      ELSE "main"

\* The process before its first statement, in every environment
InitStartup ==
  /\ ver \in {"bot21", "bot3"}
  /\ INSTRUMENTS_LIST = <<>>
  /\ gspread_client = "unset"
  /\ loop_task = 0
  /\ sheet = <<>>
  /\ \E env \in Environments :
       task = [t \in Tasks |->
                 IF t = 1 THEN [pc |-> "import", env |-> env, clients |-> FALSE, cycles |-> 0]
                 ELSE NoTask]

\* The module is executed up to the main block
Import ==
  /\ task[1].pc = "import"
  /\ \E pc \in {LoadConfiguration(ver, task[1].env)} :
       /\ task' = [task EXCEPT ![1].pc = pc, ![1].clients = (pc = "main")]
       /\ INSTRUMENTS_LIST' = IF pc = "main" THEN <<task[1].env.INSTRUMENTS>> ELSE <<>>
  /\ UNCHANGED <<ver, gspread_client, loop_task, sheet>>

\* bot.run(BOT_TOKEN): TypeError for a token that is no string, LoginFailure
\* for one Discord refuses (both end the process), else the bot connects.
BotRun ==
  /\ task[1].pc = "main"
  /\ \E accepted \in BOOLEAN :
       task' = [task EXCEPT ![1].pc =
                  IF task[1].env.BOT_TOKEN = "value" /\ accepted THEN "connected" ELSE "ended"]
  /\ UNCHANGED <<ver, INSTRUMENTS_LIST, gspread_client, loop_task, sheet>>

\* on_ready: the spreadsheet client is constructed and the loop started
Ready ==
  /\ task[1].pc = "connected"
  /\ \E credsOk \in BOOLEAN :
       gspread_client' =
         AuthGspread(credsOk /\ Truthy(Getenv(task[1].env, "SERVICE_ACCOUNT_FILE", DefaultFile(ver))))
  /\ task' = [task EXCEPT ![1].pc = "looping"]
  /\ loop_task' = 1
  /\ UNCHANGED <<ver, INSTRUMENTS_LIST, sheet>>

\* The loop calls monitor_and_report for the first time
FirstCycle ==
  /\ task[1].pc = "looping"
  /\ task[1].cycles = 0
  /\ task' = [task EXCEPT ![1].cycles = 1]
  /\ UNCHANGED <<ver, INSTRUMENTS_LIST, gspread_client, loop_task, sheet>>

NextStartup == Import \/ BotRun \/ Ready \/ FirstCycle

StartupSpec == InitStartup /\ [][NextStartup]_vars

\* ------------------------------------------------------------- properties
Range(q) == {q[i] : i \in DOMAIN q}

\* The records of the response a frame holds
Prices(f) == Get(f.response, "prices", <<>>)

\* A valid price record: every required field is there and the timestamp is
\* an ISO-8601 instant
ValidTimes == {Z6, Off0}
Valid(r) ==
  /\ RequiredKeys \subseteq DOMAIN r
  /\ Len(r.bids) > 0 /\ "price" \in DOMAIN r.bids[1]
  /\ Len(r.asks) > 0 /\ "price" \in DOMAIN r.asks[1]
  /\ r.time \in ValidTimes

NumValid(f) == Cardinality({i \in DOMAIN Prices(f) : Valid(Prices(f)[i])})

Started(t) == task[t].pc # "none"
Idle(t) == task[t].pc \in {"sleeping", "backoff"}
Frame(t) == task[t].frame

\* C1: no failure of a stage propagates out of a cycle so as to stop the
\* loop: no task of the loop ever ends with an exception.
C1_NoFailureEscapes ==
  \A t \in Tasks : Started(t) => task[t].pc # "failed"

\* C2: at most one cycle is in flight: while a cycle awaits its channel.send
\* no other cycle awaits one and no other task exists that could start one.
C2_OneCycleInFlight ==
  /\ Cardinality({t \in Tasks : Awaiting(t)}) <= 1
  /\ \A t \in Tasks : Awaiting(t) => \A u \in Tasks \ {t} : Done(u)

\* A cycle awaits its send after on_ready has fired again (the client the
\* cycle wrote with has since been replaced by None).
C2_Witness ==
  \E t \in Tasks : Awaiting(t) /\ Frame(t).sink = "ok" /\ gspread_client = None

\* C3: the loop has no terminal state: once started it always returns to
\* waiting for its next cycle.
C3_AlwaysReturnsToIdle ==
  [](loop_task # 0 => <>(loop_task # 0 /\ Idle(loop_task)))

\* C4: a cycle whose fetch raised does nothing but notify the failure (no
\* transform, no sink call, no full report), and the loop then waits for the
\* next tick.
C4_FetchFailureOnlyNotifies ==
  \A t \in Tasks :
    Started(t) /\ Frame(t).fetch = "raised" =>
      /\ Frame(t).stages = <<"FETCHING">>
      /\ Frame(t).sink = "none" /\ Frame(t).sink_calls = <<>>
      /\ Frame(t).all_rows_for_gsheet = <<>> /\ Frame(t).table_rows_for_discord = <<>>
      /\ Frame(t).sends = 1
      /\ task[t].pc = "send_failure" => Frame(t).embed = FailureEmbed(ver)
      /\ task[t].pc = "send_failure" \/ Idle(t)

\* C5: a cycle that finds no channel is skipped whole: no fetch, no sink
\* call, no send, no exception, and the loop waits for the next tick.
C5_SkipWithoutChannel ==
  \A t \in Tasks :
    Started(t) /\ Frame(t).channel = None =>
      /\ Frame(t).fetch = "none" /\ Frame(t).stages = <<>>
      /\ Frame(t).sink = "none" /\ Frame(t).sink_calls = <<>>
      /\ Frame(t).sends = 0 /\ Frame(t).embed = NoEmbed
      /\ Frame(t).escaped = None
      /\ task[t].pc = "sleeping"

\* A cycle was skipped after an earlier cycle had written to the sheet.
C5_Witness ==
  \E t \in Tasks : Started(t) /\ Frame(t).channel = None /\ sheet # <<>>

\* C6: of a notification being sent, the color is success iff
\* rows_written = instruments_requested > 0, failure iff the fetch failed,
\* and warning otherwise.
C6_ColorRule ==
  \A t \in Tasks :
    Awaiting(t) =>
      LET f == Frame(t)
          success == f.rows_written = Len(INSTRUMENTS_LIST) /\ f.rows_written > 0
          failure == f.fetch = "raised"
      IN  /\ f.embed.color = "green" <=> success
          /\ f.embed.color = "red" <=> failure
          /\ f.embed.color = "orange" <=> ~success /\ ~failure

\* C7: a record that misses a required field or whose timestamp does not
\* parse gives no SheetRow and no DisplayRow and counts as one error, and
\* the valid records of the batch are all processed.
C7_BadRecordExcluded ==
  \A t \in Tasks :
    Started(t) /\ task[t].pc = "transformed" =>
      LET f == Frame(t)
          bad == {i \in DOMAIN Prices(f) : ~Valid(Prices(f)[i])}
      IN  /\ \A i \in bad : i \notin Range(f.sheet_src) /\ i \notin Range(f.table_src)
          /\ f.warnings = Cardinality(bad)
          /\ \A i \in DOMAIN Prices(f) \ bad :
               i \in Range(f.sheet_src) /\ i \in Range(f.table_src)

\* C8: every valid record of a batch gives exactly one SheetRow and one
\* DisplayRow, and its SheetRow is (instrument, formatted time, status, bid,
\* ask) of the record.
C8_ValidRecordRows ==
  \A t \in Tasks :
    Started(t) /\ task[t].pc = "transformed" =>
      LET f == Frame(t)
      IN  \A i \in DOMAIN Prices(f) :
            LET r == Prices(f)[i]
                js == {j \in DOMAIN f.sheet_src : f.sheet_src[j] = i}
                ks == {k \in DOMAIN f.table_src : f.table_src[k] = i}
            IN  Valid(r) =>
                  /\ Cardinality(js) = 1 /\ Cardinality(ks) = 1
                  /\ \A j \in js :
                       f.all_rows_for_gsheet[j] =
                         <<r.instrument, <<r.time[1], " ", r.time[3]>>, r.status,
                           r.bids[1].price, r.asks[1].price>>

\* A batch was transformed in which a valid record follows a broken one and
\* a second valid record, with another timestamp form, is there too.
C8_Witness ==
  \E t \in Tasks :
    /\ Started(t) /\ task[t].pc = "transformed"
    /\ Len(Prices(Frame(t))) = 2
    /\ ~Valid(Prices(Frame(t))[1]) /\ Prices(Frame(t))[2] = QuoteB
    /\ Len(Frame(t).all_rows_for_gsheet) = 1

\* C9: rows_written is at most the number of records parsed in the cycle,
\* and is 0 when the sink call failed or there was no SheetRow.
C9_RowsWritten ==
  \A t \in Tasks :
    Started(t) /\ task[t].pc = "send_report" =>
      LET f == Frame(t)
      IN  /\ f.rows_written <= NumValid(f)
          /\ f.sink = "raised" \/ f.all_rows_for_gsheet = <<>> => f.rows_written = 0

\* The sink call failed in a cycle that had parsed two records.
C9_Witness ==
  \E t \in Tasks :
    /\ Started(t) /\ task[t].pc = "send_report"
    /\ Frame(t).sink = "raised" /\ NumValid(Frame(t)) = 2
    /\ Frame(t).sink_calls # <<>>

\* C10 as claimed: quotes_parsed is at most instruments_requested.
C10_ParsedAtMostRequested ==
  \A t \in Tasks :
    Started(t) /\ task[t].pc = "send_report" =>
      Len(Frame(t).all_rows_for_gsheet) <= Len(INSTRUMENTS_LIST)

\* C10 amended: quotes_parsed is at most the number of records of the
\* provider response of the cycle.
C10_ParsedAtMostReturned ==
  \A t \in Tasks :
    Started(t) /\ task[t].pc = "send_report" =>
      Len(Frame(t).all_rows_for_gsheet) <= Len(Prices(Frame(t)))

\* Every record of a response is parsed, and they are more than the
\* instruments requested.
C10_Witness ==
  \E t \in Tasks :
    /\ Started(t) /\ task[t].pc = "send_report"
    /\ Len(Frame(t).all_rows_for_gsheet) = Len(Prices(Frame(t)))
    /\ Len(Prices(Frame(t))) > Len(INSTRUMENTS_LIST)

\* The SheetRow a valid record should give
ExpectedSheetRow(r) ==
  <<r.instrument, <<r.time[1], " ", r.time[3]>>, r.status, r.bids[1].price, r.asks[1].price>>

\* The SheetRows a response should give, in the order of its records
RECURSIVE ExpectedRows(_)
ExpectedRows(prices) ==
  IF prices = <<>> THEN <<>>
  ELSE IF Valid(Head(prices)) THEN <<ExpectedSheetRow(Head(prices))>> \o ExpectedRows(Tail(prices))
  ELSE ExpectedRows(Tail(prices))

Reporting(t) == Started(t) /\ task[t].pc = "send_report"

\* C11 as claimed: in every cycle with a non-empty list of SheetRows exactly
\* one bulk-append call is made, carrying all the rows in the order of the
\* provider's records; with an empty list the sink returns 0 and makes no
\* network call.
C11_ExactlyOneBulkAppend ==
  \A t \in Tasks :
    Reporting(t) =>
      LET f == Frame(t)
      IN  IF ExpectedRows(Prices(f)) # <<>>
            THEN f.sink_calls = <<ExpectedRows(Prices(f))>>
            ELSE f.rows_written = 0 /\ f.sink_calls = <<>> /\ f.sink_open = "none"

\* C11 amended: at most one bulk-append call is made in a cycle; exactly one,
\* carrying all the rows in the order of the provider's records, when the
\* list is non-empty, there is a spreadsheet client and the sheet opens; with
\* an empty list the sink returns 0 and makes no network call.
C11_OneBulkAppendWhenOpened ==
  \A t \in Tasks :
    Reporting(t) =>
      LET f == Frame(t)
      IN  /\ Len(f.sink_calls) <= 1
          /\ IF ExpectedRows(Prices(f)) # <<>>
               THEN /\ f.sink_open = "ok" <=> f.sink_calls # <<>>
                    /\ f.sink \notin {"no_client", "none"} => f.sink_open \in {"ok", "raised"}
                    /\ f.sink_calls # <<>> => f.sink_calls = <<ExpectedRows(Prices(f))>>
               ELSE f.rows_written = 0 /\ f.sink_calls = <<>> /\ f.sink_open = "none"

\* Two rows, from records in the order USD_JPY, EUR_USD, went out in one call.
C11_Witness ==
  \E t \in Tasks :
    /\ Reporting(t)
    /\ Prices(Frame(t)) = <<QuoteB, QuoteA>>
    /\ Frame(t).sink_calls = <<Frame(t).all_rows_for_gsheet>>
    /\ Len(Frame(t).all_rows_for_gsheet) = 2

\* What a report embed shows: the DisplayRows of its table (none when it
\* has no "Live Prices" field) and its "Instruments Fetched" counter
HasTable(embed) == Len(embed.fields) = 3
TableRowsShown(embed) ==
  IF HasTable(embed)
    THEN SubSeq(embed.fields[1].value, 4, Len(embed.fields[1].value) - 1)
    ELSE <<>>
ParsedCounter(embed) == embed.fields[Len(embed.fields) - 1].value
NoDataMessage == "No price data was returned from the API."

\* C12: a full report shows one DisplayRow per parsed quote (as many table
\* rows as its "instruments parsed" counter says), and shows the "no data
\* returned" message instead exactly when zero quotes were parsed.
C12_TableMatchesCounter ==
  \A t \in Tasks :
    Reporting(t) =>
      LET e == Frame(t).embed
      IN  /\ Len(TableRowsShown(e)) = ParsedCounter(e)
          /\ HasTable(e) <=> ParsedCounter(e) > 0
          /\ e.description = NoDataMessage <=> ParsedCounter(e) = 0

\* C13: the sink is not idempotent: every cycle whose sink call succeeds
\* puts its SheetRows after what the sheet holds, also when the sheet holds
\* the same rows already, and no other step changes the sheet; so the sheet
\* is the concatenation, in cycle order, of the rows of those cycles.
C13_SheetIsConcatenation ==
  [][LET wrote == {t \in Tasks : /\ Started(t) /\ Idle(t)
                                 /\ task'[t].pc = "send_report"
                                 /\ task'[t].frame.sink = "ok"}
     IN  IF wrote # {}
           THEN \E t \in wrote : sheet' = sheet \o ExpectedRows(Prices(task'[t].frame))
           ELSE sheet' = sheet]_vars

\* The sink of a cycle succeeded on a response whose row the sheet already
\* held: the sheet holds the row twice.
C13_Witness ==
  \E t \in Tasks :
    /\ Reporting(t) /\ Frame(t).sink = "ok"
    /\ Prices(Frame(t)) = <<QuoteA>>
    /\ sheet = <<ExpectedSheetRow(QuoteA), ExpectedSheetRow(QuoteA)>>

\* A step of a cycle of task t: the coroutine is called, or its await returns
CycleStep(t) ==
  /\ task[t].pc \in {"sleeping", "backoff", "send_failure", "send_report"}
  /\ task'[t] # task[t]

Supplied(x) == x \notin {None, ""}
InvalidConfiguration(v, env) ==
  \/ ~Supplied(env.BOT_TOKEN)
  \/ env.CHANNEL_ID \in {None, "abc"}
  \/ env.CHECK_INTERVAL_SECONDS = "abc"
  \/ ~Supplied(env.OANDA_ACCOUNT_ID)
  \/ ~Supplied(env.OANDA_ACCESS_TOKEN)
  \/ ~Supplied(env.GOOGLE_SHEET_NAME)
  \/ ~Supplied(IF v = "bot3" /\ env.SERVICE_ACCOUNT_FILE = None
                 THEN "wiseguys-c6650-710e87e96c88.json" ELSE env.SERVICE_ACCOUNT_FILE)
  \/ ~Supplied(env.INSTRUMENTS)

\* C15: with any required value absent or malformed the process exits at
\* startup, before a client is constructed and before a cycle runs.
C15_InvalidConfigurationExits ==
  (task[1].pc # "import" /\ InvalidConfiguration(ver, task[1].env)) =>
     /\ task[1].pc = "exited"
     /\ ~task[1].clients
     /\ gspread_client = "unset"
     /\ task[1].cycles = 0

\* The DisplayRow a valid record should give
ExpectedDisplayRow(r) == DiscordRow(r.instrument, r.bids[1].price, r.asks[1].price)

\* C16: in a cycle whose fetch succeeded, that parsed n >= 1 records and
\* whose sink call threw, rows_written is 0, the report has the warning
\* colour, and the report is sent with a table that shows the row of each
\* of the n parsed records.
C16_SinkFailureStillReports ==
  \A t \in Tasks :
    (Started(t) /\ Frame(t).fetch = "ok" /\ Frame(t).sink = "raised"
       /\ task[t].pc \notin {"sleeping", "backoff", "failed"}) =>
      LET f == Frame(t)
          e == f.embed
          n == NumValid(f)
      IN  /\ task[t].pc = "send_report" /\ f.sends = 1
          /\ n >= 1
          /\ f.rows_written = 0
          /\ e.fields[Len(e.fields)].value = 0
          /\ e.color = "orange"
          /\ ParsedCounter(e) = n
          /\ Len(TableRowsShown(e)) >= n
          /\ \A i \in DOMAIN Prices(f) :
               Valid(Prices(f)[i]) => ExpectedDisplayRow(Prices(f)[i]) \in Range(TableRowsShown(e))

\* The spreadsheet could not be opened in a cycle that had parsed two
\* records: the report awaits its send with both rows in the table.
C16_Witness ==
  \E t \in Tasks :
    /\ Reporting(t) /\ Frame(t).fetch = "ok"
    /\ Frame(t).sink = "raised" /\ Frame(t).sink_open = "raised"
    /\ NumValid(Frame(t)) = 2
    /\ Len(TableRowsShown(Frame(t).embed)) = 2

\* Where the loop goes after the await of a cycle of version v, which stands
\* at `at', completes with outcome e (None: delivered)
Continuation(v, at, e) ==
  IF at \in {"returned", "raised"} THEN at
  ELSE IF SendGuarded(v, at) THEN AfterCoro(None) ELSE AfterCoro(e)

\* C17: on the same inputs (channel, provider response or fetch failure,
\* sink outcome, notification outcome) a cycle of bot3 makes the same sink
\* call, builds the same notification and continues the loop in the same
\* way as a cycle of bot2.1: whenever the loop is about to call the
\* coroutine, the two files' coroutines do the same on every input.
C17_SameCycleInBothFiles ==
  \A t \in Tasks, in \in CycleInputs(gspread_client) :
    Idle(t) =>
    LET a == RunToAwait("bot21", INSTRUMENTS_LIST, gspread_client, sheet,
                        in.channel, in.fetchOk, in.resp, in.api)
        b == RunToAwait("bot3", INSTRUMENTS_LIST, gspread_client, sheet,
                        in.channel, in.fetchOk, in.resp, in.api)
    IN  /\ a.at = b.at
        /\ a.frame.sink_calls = b.frame.sink_calls
        /\ a.sheet = b.sheet
        /\ a.frame.embed = b.frame.embed
        /\ \A e \in {None} \cup SendExceptions :
             Continuation("bot21", a.at, e) = Continuation("bot3", b.at, e)

\* A cycle of task t starts without a spreadsheet client, its fetch succeeds
\* and it goes on to report
DegradedCycle(t) ==
  /\ Idle(t) /\ gspread_client = None
  /\ task'[t] # task[t]
  /\ task'[t].pc = "send_report"

\* The send of the report of a cycle that ran without a client completes
DegradedReportSent(t) ==
  /\ task[t].pc = "send_report" /\ task[t].frame.sink = "no_client"
  /\ task'[t] # task[t]

\* C18: without a spreadsheet client a cycle whose fetch succeeds makes no
\* sink call, has rows_written = 0, does not report the success colour and
\* still sends its report; the cycle does not obtain the handle, and the
\* loop keeps running after it.
C18_DegradedModeKeepsRunning ==
  [][\A t \in Tasks :
       /\ DegradedCycle(t) =>
            LET f == task'[t].frame
            IN  /\ f.sink = "no_client" /\ f.sink_calls = <<>> /\ f.sink_open = "none"
                /\ sheet' = sheet
                /\ f.rows_written = 0
                /\ f.embed.color # "green"
                /\ f.sends = 1
                /\ gspread_client' = None
       /\ DegradedReportSent(t) =>
            /\ task'[t].pc \in {"sleeping", "backoff"}
            /\ gspread_client' = gspread_client]_vars

\* The tasks of the loop that have not ended
Running == {t \in Tasks : ~Done(t)}

\* C19: however often on_ready fires, at most one instance of the loop
\* runs; an on_ready that comes while the loop runs (seen where it assigns
\* another spreadsheet client) neither stops nor restarts it and leaves the
\* cycle in flight as it is; and a cycle that was in flight makes no sink
\* call after its await, so the handle it used is the one it read before.
C19_OnReadyLeavesLoopAlone ==
  /\ [](Cardinality(Running) <= 1)
  /\ [][/\ (gspread_client' # gspread_client /\ Running # {}) =>
             /\ loop_task' = loop_task
             /\ \A t \in Running : task'[t] = task[t]
        /\ \A t \in Tasks :
             (Awaiting(t) /\ task'[t] # task[t]) =>
               /\ task'[t].frame.sink = task[t].frame.sink
               /\ task'[t].frame.sink_open = task[t].frame.sink_open
               /\ sheet' = sheet]_vars

\* on_ready fired while a cycle was in flight: the cycle wrote its rows with
\* the client it had, and the handle is None now.
C19_Witness ==
  \E t \in Tasks :
    /\ Reporting(t) /\ Frame(t).sink = "ok"
    /\ gspread_client = None
    /\ loop_task = t /\ Running = {t}

=============================================================================
